---- MODULE Spec2Model ----
(***************************************************************************)
(* Model of app.py: a Streamlit script that answers questions over a Neo4j *)
(* graph through a GraphCypherQAChain and keeps a per-session chat         *)
(* history.  Streamlit re-executes the script top to bottom for every      *)
(* user event of a session; a session's script run is modelled as a        *)
(* program counter walking through the script, and the runs of different   *)
(* sessions interleave.                                                    *)
(***************************************************************************)
EXTENDS Integers, Sequences, FiniteSets, TLC

\* ---------------------------------------------------------------- bounds
MaxRuns == 4                 \* script runs (user events) over all sessions

\* ---------------------------------------------------------------- inputs
Sessions == {"s1", "s2"}
Questions == {"", "q1", "q2"}          \* text typed in the question box
Results == {"", "a1"}                  \* text the chain may return as result
CypherQueries == {"", "MATCH"}         \* text typed in the raw-query box
GenErrors == {"llm unavailable"}
ExecErrors == {"syntax error", "service unavailable", "unauthorized"}
PhraseErrors == {"rate limit"}

EnvVars == {"GROQ_API_KEY", "NEO4J_URI", "NEO4J_USERNAME", "NEO4J_PASSWORD"}
None == "<None>"

VARIABLES
  environ,        \* the process environment after load_dotenv(): var -> value
  session_state,  \* st.session_state of every session
  user_question,  \* value of the text_input widget
  button,         \* what st.button("Get Answer") returns in the current run
  pc,             \* position of the session's script run
  banners,        \* st.success / st.error elements shown by the current run
  history_view,   \* elements the History tab has rendered in the current run
  response,       \* local variable `response`
  exc,            \* message of the exception in flight
  raised,         \* number of exceptions raised during the current run
  rendered,       \* page regions the current run has rendered
  crashSite,      \* where the current run raised an uncaught exception
  invokes,        \* number of qa_chain.invoke calls of the current run
  runStart,       \* chat_history as it was when the current run began
  okLog,          \* (question, result) of every chain call that returned one
  log,            \* <<request, step>> of every step of a submitted question
  reqs,           \* number of script runs the session has started
  runs,           \* number of script runs started over all sessions
  actor,          \* the session that took the last step
  cypher_query,   \* value of the raw-query text_area
  fetch,          \* what st.button("Fetch Results") returns in the current run
  graphCalls,     \* arguments of the graph.query calls of the raw-query tab
  raw_view        \* elements the raw-query tab has rendered

vars == <<environ, session_state, user_question, button, pc, banners,
          history_view, response, exc, raised, rendered, crashSite, invokes,
          runStart, okLog, log, reqs, runs, actor, cypher_query, fetch,
          graphCalls, raw_view>>

rawVars == <<cypher_query, fetch, graphCalls, raw_view>>

\* ------------------------------------------------------------ helpers
\* os.getenv(key): the value, or None when the variable is not set
getenv(key) == IF key \in DOMAIN environ THEN environ[key] ELSE None

\* Python truthiness of a str: the empty string is falsy
Truthy(text) == text # ""

\* "chat_history" not in st.session_state
NotInSessionState(s) == "chat_history" \notin session_state[s].keys

\* list[::-1]
RECURSIVE Reversed(_)
Reversed(list) ==
  IF list = <<>> THEN <<>>
  ELSE Append(Reversed(Tail(list)), Head(list))

\* the three st.markdown calls of one loop iteration of the History tab
ChatMarkdown(chat) ==
  << <<"**Q:** ", chat.question>>, <<"**A:** ", chat.answer>>, <<"---">> >>

RECURSIVE RenderChats(_)
RenderChats(list) ==
  IF list = <<>> THEN <<>>
  ELSE ChatMarkdown(Head(list)) \o RenderChats(Tail(list))

\* body of the History tab: the reversed list, or the "No history yet." info
HistoryElements(chat_history) ==
  IF chat_history # <<>>
  THEN RenderChats(Reversed(chat_history))
  ELSE << <<"info", "No history yet.">> >>

\* st.session_state.chat_history.append(entry) in session s
AppendShared(ss, s, entry) ==
  [t \in DOMAIN ss |->
     [ss[t] EXCEPT !.chat_history = Append(@, entry)]]

AppendChat(ss, s, entry) ==
  [ss EXCEPT ![s].chat_history = Append(@, entry)]

\* f"Error: {e}"
ErrorText(e) == <<"Error: ", e>>

\* --------------------------------------------------------------- Init
Init ==
  /\ environ \in UNION {[D -> {"set"}] : D \in SUBSET EnvVars}
  /\ session_state = [s \in Sessions |-> [keys |-> {}, chat_history |-> <<>>]]
  /\ user_question = [s \in Sessions |-> ""]
  /\ button = [s \in Sessions |-> FALSE]
  /\ pc = [s \in Sessions |-> "new"]
  /\ banners = [s \in Sessions |-> <<>>]
  /\ history_view = [s \in Sessions |-> <<>>]
  /\ response = [s \in Sessions |-> [keys |-> {}, result |-> ""]]
  /\ exc = [s \in Sessions |-> ""]
  /\ raised = [s \in Sessions |-> 0]
  /\ rendered = [s \in Sessions |-> {}]
  /\ crashSite = [s \in Sessions |-> "none"]
  /\ invokes = [s \in Sessions |-> 0]
  /\ runStart = [s \in Sessions |-> <<>>]
  /\ okLog = [s \in Sessions |-> <<>>]
  /\ log = [s \in Sessions |-> <<>>]
  /\ reqs = [s \in Sessions |-> 0]
  /\ runs = 0
  /\ actor = "s1"
  /\ cypher_query = [s \in Sessions |-> ""]
  /\ fetch = [s \in Sessions |-> FALSE]
  /\ graphCalls = [s \in Sessions |-> <<>>]
  /\ raw_view = [s \in Sessions |-> <<>>]


\* ------------------------------------------------- the user's events
\* Every event of a session starts one run of the script; Streamlit clears
\* what the previous run displayed.
StartRun(s, clicked, fetched) ==
  /\ runs < MaxRuns
  /\ runs' = runs + 1
  /\ reqs' = [reqs EXCEPT ![s] = @ + 1]
  /\ button' = [button EXCEPT ![s] = clicked]
  /\ fetch' = [fetch EXCEPT ![s] = fetched]
  /\ pc' = [pc EXCEPT ![s] = "startup"]
  /\ banners' = [banners EXCEPT ![s] = <<>>]
  /\ history_view' = [history_view EXCEPT ![s] = <<>>]
  /\ raw_view' = [raw_view EXCEPT ![s] = <<>>]
  /\ graphCalls' = [graphCalls EXCEPT ![s] = <<>>]
  /\ rendered' = [rendered EXCEPT ![s] = {}]
  /\ crashSite' = [crashSite EXCEPT ![s] = "none"]
  /\ invokes' = [invokes EXCEPT ![s] = 0]
  /\ raised' = [raised EXCEPT ![s] = 0]
  /\ runStart' = [runStart EXCEPT ![s] = session_state[s].chat_history]
  /\ actor' = s
  /\ UNCHANGED <<environ, session_state, response, exc, okLog, log>>

\* the page is opened, or reloaded after a run that raised before any widget
Load(s) ==
  /\ pc[s] \in {"new", "aborted"}
  /\ StartRun(s, FALSE, FALSE)
  /\ UNCHANGED <<user_question, cypher_query>>

\* the question box is edited and committed: a rerun without a click
Edit(s, q) ==
  /\ pc[s] = "idle"
  /\ user_question' = [user_question EXCEPT ![s] = q]
  /\ StartRun(s, FALSE, FALSE)
  /\ UNCHANGED cypher_query

\* "Get Answer" is pressed with q in the question box
ClickGetAnswer(s, q) ==
  /\ pc[s] = "idle"
  /\ user_question' = [user_question EXCEPT ![s] = q]
  /\ StartRun(s, TRUE, FALSE)
  /\ UNCHANGED cypher_query

\* ------------------------------------------------------- the script
\* lines 12-101: environment, clients, prompt and chain.  os.environ[k] =
\* None raises TypeError; the client constructors may raise (invalid URI or
\* credentials, unreachable database).  Nothing catches either.
EnvironAssignLenient(value) == FALSE

EnvironAssignRaises(value) == value = None

Startup(s) ==
  /\ pc[s] = "startup"
  /\ actor' = s
  /\ IF \E k \in EnvVars : EnvironAssignRaises(getenv(k))
     THEN /\ pc' = [pc EXCEPT ![s] = "aborted"]
          /\ crashSite' = [crashSite EXCEPT ![s] = "environ"]
     ELSE \/ /\ pc' = [pc EXCEPT ![s] = "session_init"]
             /\ UNCHANGED crashSite
          \/ /\ pc' = [pc EXCEPT ![s] = "aborted"]
             /\ crashSite' = [crashSite EXCEPT ![s] = "constructor"]
  /\ UNCHANGED <<environ, session_state, user_question, button, banners,
                 history_view, response, exc, raised, rendered, invokes, runStart,
                 okLog, log, reqs, runs, rawVars>>

\* lines 106-114: page config, tabs, chat_history initialisation
InitAlways(s) == TRUE

InitGuard(s) == NotInSessionState(s)

SessionInit(s) ==
  /\ pc[s] = "session_init"
  /\ actor' = s
  /\ rendered' = [rendered EXCEPT ![s] = @ \cup {"tabs"}]
  /\ session_state' =
       IF InitGuard(s)
       THEN [session_state EXCEPT ![s] =
               [keys |-> @.keys \cup {"chat_history"}, chat_history |-> <<>>]]
       ELSE session_state
  /\ pc' = [pc EXCEPT ![s] = "tab0"]
  /\ UNCHANGED <<environ, user_question, button, banners, history_view,
                 response, exc, raised, crashSite, invokes, runStart, okLog, log,
                 reqs, runs, rawVars>>

\* lines 119-124: the Home tab up to the two ifs of the button handler
HandlerRunsAlways(s) == button[s]

HandlerRuns(s) == button[s] /\ Truthy(user_question[s])

HomeTab(s) ==
  /\ pc[s] = "tab0"
  /\ actor' = s
  /\ rendered' = [rendered EXCEPT ![s] = @ \cup {"home"}]
  /\ pc' = [pc EXCEPT ![s] = IF HandlerRuns(s) THEN "invoke" ELSE "tab1"]
  /\ UNCHANGED <<environ, session_state, user_question, button, banners,
                 history_view, response, exc, raised, crashSite, invokes, runStart,
                 okLog, log, reqs, runs, rawVars>>

\* one step of a submitted question, as the log records it
Logged(s, step) == [log EXCEPT ![s] = Append(@, <<reqs[s], step>>)]

\* line 126: qa_chain.invoke(user_question) is entered
ChainInvoke(s) ==
  /\ pc[s] = "invoke"
  /\ actor' = s
  /\ invokes' = [invokes EXCEPT ![s] = @ + 1]
  /\ log' = Logged(s, "invoke")
  /\ pc' = [pc EXCEPT ![s] = "generate"]
  /\ UNCHANGED <<environ, session_state, user_question, button, banners,
                 history_view, response, exc, raised, rendered, crashSite, runStart,
                 okLog, reqs, runs, rawVars>>

\* a phase of the chain raises: the exception travels to line 131
Raise(s, message) ==
  /\ exc' = [exc EXCEPT ![s] = message]
  /\ raised' = [raised EXCEPT ![s] = @ + 1]
  /\ pc' = [pc EXCEPT ![s] = "except"]

\* the chain asks the LLM for a Cypher statement
ChainGenerate(s) ==
  /\ pc[s] = "generate"
  /\ actor' = s
  /\ log' = Logged(s, "generate")
  /\ \/ pc' = [pc EXCEPT ![s] = "execute"] /\ UNCHANGED <<exc, raised>>
     \/ \E e \in GenErrors : Raise(s, e)
  /\ UNCHANGED <<environ, session_state, user_question, button, banners,
                 history_view, response, rendered, crashSite, invokes,
                 runStart, okLog, reqs, runs, rawVars>>

\* the chain runs the statement through the graph client
ChainExecute(s) ==
  /\ pc[s] = "execute"
  /\ actor' = s
  /\ log' = Logged(s, "execute")
  /\ \/ pc' = [pc EXCEPT ![s] = "phrase"] /\ UNCHANGED <<exc, raised>>
     \/ \E e \in ExecErrors : Raise(s, e)
  /\ UNCHANGED <<environ, session_state, user_question, button, banners,
                 history_view, response, rendered, crashSite, invokes,
                 runStart, okLog, reqs, runs, rawVars>>

\* the chain asks the LLM to phrase the rows and returns its response: a
\* dict with a result, or (a malformed response) one without
ChainPhrase(s) ==
  /\ pc[s] = "phrase"
  /\ actor' = s
  /\ log' = Logged(s, "phrase")
  /\ \/ \E r \in Results :
          /\ response' = [response EXCEPT ![s] =
                            [keys |-> {"result"}, result |-> r]]
          /\ okLog' = [okLog EXCEPT ![s] =
                         Append(@, [question |-> user_question[s],
                                    answer |-> r])]
          /\ pc' = [pc EXCEPT ![s] = "success"]
          /\ UNCHANGED <<exc, raised>>
     \/ /\ response' = [response EXCEPT ![s] = [keys |-> {}, result |-> ""]]
        /\ pc' = [pc EXCEPT ![s] = "success"]
        /\ UNCHANGED <<exc, raised, okLog>>
     \/ \E e \in PhraseErrors :
          Raise(s, e) /\ UNCHANGED <<response, okLog>>
  /\ UNCHANGED <<environ, session_state, user_question, button, banners,
                 history_view, rendered, crashSite, invokes, runStart,
                 reqs, runs, rawVars>>


\* line 127: st.success(response['result']); a response without the key
\* raises KeyError('result') before anything is displayed
ShowSuccess(s) ==
  /\ pc[s] = "success"
  /\ actor' = s
  /\ IF "result" \in response[s].keys
     THEN /\ banners' = [banners EXCEPT ![s] =
                           Append(@, <<"success", response[s].result>>)]
          /\ log' = Logged(s, "success")
          /\ pc' = [pc EXCEPT ![s] = "append"]
          /\ UNCHANGED <<exc, raised>>
     ELSE /\ Raise(s, "'result'")
          /\ UNCHANGED <<banners, log>>
  /\ UNCHANGED <<environ, session_state, user_question, button,
                 history_view, response, rendered, crashSite, invokes,
                 runStart, okLog, reqs, runs, rawVars>>

\* line 130: the (question, answer) pair is appended to the session's list
ChatEntrySwapped(s) ==
  [question |-> response[s].result, answer |-> user_question[s]]

ChatEntry(s) ==
  [question |-> user_question[s], answer |-> response[s].result]

SaveToHistory(s) ==
  /\ pc[s] = "append"
  /\ actor' = s
  /\ session_state' = AppendChat(session_state, s, ChatEntry(s))
  /\ log' = Logged(s, "append")
  /\ pc' = [pc EXCEPT ![s] = "tab1"]
  /\ UNCHANGED <<environ, user_question, button, banners, history_view,
                 response, exc, raised, rendered, crashSite, invokes, runStart,
                 okLog, reqs, runs, rawVars>>

\* lines 131-132: except Exception as e: st.error(f"Error: {e}")
ShowErrorRetries(s) ==
  /\ pc[s] = "except"
  /\ actor' = s
  /\ IF invokes[s] < 2
     THEN /\ pc' = [pc EXCEPT ![s] = "invoke"]
          /\ UNCHANGED <<banners, log>>
     ELSE /\ banners' = [banners EXCEPT ![s] =
                           Append(@, <<"error", ErrorText(exc[s])>>)]
          /\ log' = Logged(s, "error")
          /\ pc' = [pc EXCEPT ![s] = "tab1"]
  /\ UNCHANGED <<environ, session_state, user_question, button, history_view,
                 response, exc, raised, rendered, crashSite, invokes, runStart,
                 okLog, reqs, runs, rawVars>>

ShowErrorAndSave(s) ==
  /\ pc[s] = "except"
  /\ actor' = s
  /\ banners' = [banners EXCEPT ![s] = Append(@, <<"error", ErrorText(exc[s])>>)]
  /\ session_state' = AppendChat(session_state, s,
                         [question |-> user_question[s], answer |-> exc[s]])
  /\ log' = Logged(s, "error")
  /\ pc' = [pc EXCEPT ![s] = "tab1"]
  /\ UNCHANGED <<environ, user_question, button, history_view,
                 response, exc, raised, rendered, crashSite, invokes, runStart,
                 okLog, reqs, runs, rawVars>>

ShowError(s) ==
  /\ pc[s] = "except"
  /\ actor' = s
  /\ banners' = [banners EXCEPT ![s] = Append(@, <<"error", ErrorText(exc[s])>>)]
  /\ log' = Logged(s, "error")
  /\ pc' = [pc EXCEPT ![s] = "tab1"]
  /\ UNCHANGED <<environ, session_state, user_question, button, history_view,
                 response, exc, raised, rendered, crashSite, invokes, runStart,
                 okLog, reqs, runs, rawVars>>

\* lines 151-159: the History tab, the last statement of the script; `at`
\* is the tab it is placed in
HistoryShownInOrder(chat_history) ==
  IF chat_history # <<>>
  THEN RenderChats(chat_history)
  ELSE << <<"info", "No history yet.">> >>

HistoryShown(chat_history) == HistoryElements(chat_history)

HistoryTab(s, at) ==
  /\ pc[s] = at
  /\ actor' = s
  /\ rendered' = [rendered EXCEPT ![s] = @ \cup {"history"}]
  /\ history_view' = [history_view EXCEPT ![s] =
                        HistoryShown(session_state[s].chat_history)]
  /\ pc' = [pc EXCEPT ![s] = "idle"]
  /\ UNCHANGED <<environ, session_state, user_question, button, banners,
                 response, exc, raised, crashSite, invokes, runStart, okLog, log,
                 reqs, runs, rawVars>>

\* ------------------------------------------- the raw-query variant
\* The variant of the script with a "Raw Cypher" tab between Home and
\* History.  "Fetch Results" is pressed with c in the query box.
ClickFetchResults(s, c) ==
  /\ pc[s] = "idle"
  /\ cypher_query' = [cypher_query EXCEPT ![s] = c]
  /\ StartRun(s, FALSE, TRUE)
  /\ UNCHANGED user_question

RawHandlerRunsAlways(s) == fetch[s]

RawHandlerRuns(s) == fetch[s] /\ Truthy(cypher_query[s])

\* the raw-query tab: graph.query(cypher_query) under a broad except
RawCypherTab(s) ==
  /\ pc[s] = "tab1"
  /\ actor' = s
  /\ rendered' = [rendered EXCEPT ![s] = @ \cup {"raw"}]
  /\ IF RawHandlerRuns(s)
     THEN /\ graphCalls' = [graphCalls EXCEPT ![s] = Append(@, cypher_query[s])]
          /\ \/ raw_view' = [raw_view EXCEPT ![s] = << <<"write", "rows">> >>]
             \/ \E e \in ExecErrors :
                  raw_view' = [raw_view EXCEPT ![s] =
                     << <<"error", <<"Error executing Cypher: ", e>> >> >>]
     ELSE UNCHANGED <<graphCalls, raw_view>>
  /\ pc' = [pc EXCEPT ![s] = "tab2"]
  /\ UNCHANGED <<environ, session_state, user_question, button, banners,
                 history_view, response, exc, raised, crashSite, invokes,
                 runStart, okLog, log, reqs, runs, cypher_query, fetch>>

\* ---------------------------------------------- the specifications
Event ==
  \E s \in Sessions :
    \/ Load(s)
    \/ \E q \in Questions : Edit(s, q)
    \/ \E q \in Questions : ClickGetAnswer(s, q)

Script(s) ==
  \/ Startup(s)
  \/ SessionInit(s)
  \/ HomeTab(s)
  \/ ChainInvoke(s)
  \/ ChainGenerate(s)
  \/ ChainExecute(s)
  \/ ChainPhrase(s)
  \/ ShowSuccess(s)
  \/ SaveToHistory(s)
  \/ ShowError(s)

Next ==
  \/ Event
  \/ \E s \in Sessions : Script(s)
  \/ \E s \in Sessions : HistoryTab(s, "tab1")

Spec == Init /\ [][Next]_vars

NextRaw ==
  \/ Event
  \/ \E s \in Sessions : \E c \in CypherQueries : ClickFetchResults(s, c)
  \/ \E s \in Sessions : Script(s)
  \/ \E s \in Sessions : RawCypherTab(s)
  \/ \E s \in Sessions : HistoryTab(s, "tab2")

SpecRaw == Init /\ [][NextRaw]_vars


\* ------------------------------------------------------ properties
chat_history(s) == session_state[s].chat_history

Has(s) == "chat_history" \in session_state[s].keys

Last(list) == list[Len(list)]

IsPrefix(a, b) ==
  /\ Len(a) <= Len(b)
  /\ \A i \in 1..Len(a) : a[i] = b[i]

Steps(s) == {log[s][i] : i \in 1..Len(log[s])}

SuccessBanners(s) ==
  {i \in 1..Len(banners[s]) : banners[s][i][1] = "success"}

ErrorBanners(s) ==
  {i \in 1..Len(banners[s]) : banners[s][i][1] = "error"}

\* the run of the script has reached its end
Done(s) == pc[s] = "idle"

\* C1: when a run in which "Get Answer" was pressed with a non-empty
\* question ends, exactly one banner is displayed, and it is either an error
\* banner or a success banner whose text is not empty.
C1_BannerNeverSilent ==
  \A s \in Sessions :
    (Done(s) /\ button[s] /\ user_question[s] # "") =>
      /\ Len(banners[s]) = 1
      /\ banners[s][1][1] \in {"success", "error"}
      /\ banners[s][1][1] = "success" => banners[s][1][2] # ""

\* C2: between runs the history list of a session is exactly the sequence
\* of (question, result) pairs of the chain calls that returned a result, in
\* submission order, and the answer stored by a run is the text of the
\* success banner that run displayed.
C2_HistoryIsSuccessLog ==
  \A s \in Sessions :
    pc[s] \in {"new", "idle", "aborted"} =>
      /\ Len(chat_history(s)) = Len(okLog[s])
      /\ \A i \in 1..Len(okLog[s]) : chat_history(s)[i] = okLog[s][i]
      /\ (Done(s) /\ SuccessBanners(s) # {}) =>
           /\ Len(chat_history(s)) = Len(runStart[s]) + 1
           /\ Last(chat_history(s)).answer = banners[s][1][2]
           /\ Last(chat_history(s)).question = user_question[s]

C2_Witness ==
  \E s \in Sessions :
    /\ Done(s)
    /\ reqs[s] = 4
    /\ Len(chat_history(s)) = 2
    /\ chat_history(s)[1] # chat_history(s)[2]
    /\ SuccessBanners(s) # {}
    /\ \E i \in 1..Len(log[s]) : log[s][i][2] = "error"

\* C3: the step that renders the History tab shows, for a list of n entries,
\* 3n elements of which the i-th group is the question, the answer and the
\* separator of entry n+1-i (the entry a successful submission of the same
\* run appended being the first group), shows the "No history yet." note for
\* an empty list, and leaves the stored list as it was.
C3_HistoryShownReversed ==
  [][\A s \in Sessions :
       (pc[s] # "idle" /\ pc'[s] = "idle") =>
         LET h == session_state'[s].chat_history
             n == Len(h)
             view == history_view'[s]
         IN /\ session_state'[s] = session_state[s]
            /\ IF n = 0
               THEN view = << <<"info", "No history yet.">> >>
               ELSE /\ Len(view) = 3 * n
                    /\ \A i \in 1..n :
                         /\ view[3 * i - 2] = <<"**Q:** ", h[n + 1 - i].question>>
                         /\ view[3 * i - 1] = <<"**A:** ", h[n + 1 - i].answer>>
                         /\ view[3 * i] = <<"---">>]_vars

C3_Witness ==
  \E s \in Sessions :
    /\ Done(s)
    /\ Len(chat_history(s)) = 2
    /\ Len(runStart[s]) = 1
    /\ chat_history(s)[1] # chat_history(s)[2]
    /\ Len(history_view[s]) = 6
    /\ history_view[s][1] = <<"**Q:** ", chat_history(s)[2].question>>
    /\ history_view[s][5] = <<"**A:** ", chat_history(s)[1].answer>>

\* C4: once the chain call of a run has raised, the chain has been invoked
\* exactly once in that run, no success banner is shown, the history list is
\* what it was when the run began, the exception does not abort the run,
\* and from the except clause on the only banner is one error banner
\* carrying the exception message; the run goes on to render the History
\* tab and ends ready for the next submission.
C4_ChainFailureIsOneErrorBanner ==
  \A s \in Sessions :
    raised[s] > 0 =>
      /\ raised[s] = 1
      /\ invokes[s] = 1
      /\ SuccessBanners(s) = {}
      /\ chat_history(s) = runStart[s]
      /\ pc[s] \in {"except", "tab1", "idle"}
      /\ pc[s] \in {"tab1", "idle"} =>
           banners[s] = << <<"error", <<"Error: ", exc[s]>> >> >>
      /\ Done(s) =>
           /\ "history" \in rendered[s]
           /\ runs < MaxRuns => ENABLED ClickGetAnswer(s, "q1")

C4_Witness ==
  \E s \in Sessions :
    /\ Done(s)
    /\ raised[s] = 1
    /\ exc[s] = "'result'"
    /\ Len(chat_history(s)) = 1
    /\ Len(banners[s]) = 1


\* C5: across every step, in every session that has a history list, the
\* list is still there afterwards and the old list is a prefix of the new
\* one; a step that creates the list creates it empty.
C5_HistoryOnlyGrows ==
  [][\A s \in Sessions :
       /\ Has(s) =>
            /\ "chat_history" \in session_state'[s].keys
            /\ IsPrefix(chat_history(s), session_state'[s].chat_history)
       /\ (~Has(s) /\ "chat_history" \in session_state'[s].keys) =>
            session_state'[s].chat_history = <<>>]_vars

C5_Witness ==
  \E s \in Sessions :
    /\ pc[s] = "tab0"
    /\ Has(s)
    /\ Len(chat_history(s)) = 1
    /\ reqs[s] = 3

\* C6 as stated: with a required variable absent every run aborts at
\* startup, inside a client constructor, with no page and no chain call.
MissingEnv == \E k \in EnvVars : k \notin DOMAIN environ

C6_AbortsInConstructor ==
  MissingEnv =>
    \A s \in Sessions :
      /\ pc[s] \in {"new", "startup", "aborted"}
      /\ rendered[s] = {}
      /\ invokes[s] = 0
      /\ pc[s] = "aborted" => crashSite[s] = "constructor"

\* C6: with any of the four variables absent, every run of the script
\* aborts at startup with the uncaught TypeError of the os.environ
\* assignment, before a client constructor is reached: no part of the page is
\* rendered, no banner is shown and the QA chain is never invoked.
C6_MissingEnvAbortsAtAssignment ==
  MissingEnv =>
    \A s \in Sessions :
      /\ pc[s] \in {"new", "startup", "aborted"}
      /\ rendered[s] = {}
      /\ banners[s] = <<>>
      /\ history_view[s] = <<>>
      /\ invokes[s] = 0
      /\ log[s] = <<>>
      /\ ~Has(s)
      /\ pc[s] = "aborted" => crashSite[s] = "environ"

C6_Witness ==
  /\ DOMAIN environ = EnvVars \ {"NEO4J_PASSWORD"}
  /\ \E s \in Sessions : pc[s] = "aborted" /\ reqs[s] = 2

\* C7: a step taken by one session changes neither the session state nor
\* the History tab of any other session.
C7_SessionsIndependent ==
  [][\A t \in Sessions :
       t # actor' =>
         /\ session_state'[t] = session_state[t]
         /\ history_view'[t] = history_view[t]]_vars

C7_Witness ==
  /\ actor = "s1"
  /\ pc["s1"] = "tab1"
  /\ Len(chat_history("s1")) = 1
  /\ runStart["s1"] = <<>>
  /\ pc["s2"] = "tab1"
  /\ Len(chat_history("s2")) = 1
  /\ chat_history("s1") # chat_history("s2")

\* C8: the steps of a submitted question happen in one order: the chain is
\* entered once, generates, executes, phrases; the success banner comes only
\* after the phrasing returned, the append only after the success banner, an
\* error banner only after a phase that raised; the requests of a session
\* follow one another without interleaving; and what is displayed and stored
\* agrees with that record.
Rank(step) ==
  CASE step = "invoke" -> 1
    [] step = "generate" -> 2
    [] step = "execute" -> 3
    [] step = "phrase" -> 4
    [] step = "success" -> 5
    [] step = "append" -> 6
    [] step = "error" -> 7

C8_LinearFlow ==
  \A s \in Sessions :
    /\ invokes[s] <= 1
    /\ \A i \in 1..Len(log[s]) :
         LET cur == log[s][i]
         IN IF i = 1 \/ log[s][i - 1][1] # cur[1]
            THEN /\ cur[2] = "invoke"
                 /\ i > 1 => log[s][i - 1][1] < cur[1]
                 /\ i > 1 => log[s][i - 1][2] \in {"append", "error"}
            ELSE LET prev == log[s][i - 1]
                 IN IF cur[2] = "error"
                    THEN prev[2] \in {"generate", "execute", "phrase"}
                    ELSE Rank(cur[2]) = Rank(prev[2]) + 1
    /\ SuccessBanners(s) # {} <=> <<reqs[s], "success">> \in Steps(s)
    /\ ErrorBanners(s) # {} <=> <<reqs[s], "error">> \in Steps(s)
    /\ chat_history(s) # runStart[s] <=> <<reqs[s], "append">> \in Steps(s)
    /\ Len(banners[s]) <= 1

C8_Witness ==
  \E s \in Sessions :
    /\ Done(s)
    /\ Len(log[s]) = 10
    /\ log[s][6] = <<2, "append">>
    /\ log[s][10] = <<4, "error">>

\* C9: in the variant with a raw-query tab, no graph.query call of that tab
\* carries an empty query, and a run in which "Fetch Results" was pressed
\* with an empty query makes no such call.
C9_EmptyQueryNoCall ==
  \A s \in Sessions :
    /\ \A i \in 1..Len(graphCalls[s]) : graphCalls[s][i] # ""
    /\ (fetch[s] /\ cypher_query[s] = "") => graphCalls[s] = <<>>

C9_Witness ==
  \E s \in Sessions :
    /\ Done(s)
    /\ fetch[s]
    /\ cypher_query[s] = ""
    /\ "raw" \in rendered[s]
    /\ raw_view[s] = <<>>

\* C10: in a run in which "Get Answer" was pressed with an empty question
\* the chain is never invoked, no banner is shown and the history list stays
\* what it was when the run began.
C10_EmptyQuestionIgnored ==
  \A s \in Sessions :
    (button[s] /\ user_question[s] = "") =>
      /\ invokes[s] = 0
      /\ banners[s] = <<>>
      /\ chat_history(s) = runStart[s]
      /\ pc[s] \in {"startup", "aborted", "session_init", "tab0", "tab1", "idle"}
      /\ \A i \in 1..Len(log[s]) : log[s][i][1] # reqs[s]

C10_Witness ==
  \E s \in Sessions :
    /\ Done(s)
    /\ button[s]
    /\ user_question[s] = ""
    /\ Len(chat_history(s)) = 1
    /\ Len(history_view[s]) = 3

====
